---------------------------- MODULE Spec2Model ----------------------------
(***************************************************************************)
(* A model of src/github/utils.ts, the adapter layer that converts REST    *)
(* and GraphQL payloads into the extension's internal shapes (accounts,    *)
(* pull requests, comments, timeline events).                              *)
(*                                                                         *)
(* Every adapter is a function of its argument.  The state machine holds   *)
(* one pending call (fn, arg), draws the argument from a bounded set in    *)
(* Init and has one action per exported function, which runs the whole     *)
(* function and records how it ended (a return value or a TypeError).      *)
(*                                                                         *)
(* parseDiffHunk (../common/diffHunk) and the EventType enumeration        *)
(* (../common/timelineEvent) are imported by utils.ts; the parser is       *)
(* modelled from the design document's description of its algorithm.       *)
(***************************************************************************)
EXTENDS Integers, Sequences, FiniteSets, TLC

VARIABLES
    fn,               \* the exported function of the pending call
    arg,              \* its argument (for convertRESTTimelineEvents: a reference)
    pc,               \* "call" | "return" | "throw"
    ret,              \* the value returned (Undefined until then)
    malformedPolicy,  \* what the diff-hunk parser does with a malformed header
    heap,             \* the mutable event lists, by reference id
    heapBefore,       \* history: heap as it was when the last call started
    applied           \* how many calls have completed

vars == <<fn, arg, pc, ret, malformedPolicy, heap, heapBefore, applied>>

----------------------------------------------------------------------------
(* Bounds of the model.                                                    *)

\* the longest diff text drawn, in lines
MaxLines == 3
\* the longest timeline drawn, in events
MaxEvents == 2

----------------------------------------------------------------------------
(* JavaScript values.  A value is a record tagged by its type; an object   *)
(* carries its own properties in f, so that an absent property and a       *)
(* property set to undefined are different objects.  TypeError stands for  *)
(* the exception a property read on null or undefined raises; it is        *)
(* carried through every expression that uses it.                          *)

Undefined == [t |-> "undefined"]
Null == [t |-> "null"]
TypeError == [t |-> "TypeError"]
Bool(b) == [t |-> "boolean", v |-> b]
Num(n) == [t |-> "number", v |-> n]
\* a string whose characters no adapter inspects
Str(s) == [t |-> "string", v |-> s]
\* a string the diff-hunk parser scans: the sequence of its characters
Text(cs) == [t |-> "string", chars |-> cs]
Arr(elems) == [t |-> "array", v |-> elems]
Ref(id) == [t |-> "ref", id |-> id]

IsThrown(x) == x.t = "TypeError"

\* ToBoolean
Truthy(x) ==
    CASE x.t \in {"undefined", "null"} -> FALSE
      [] x.t = "boolean" -> x.v
      [] x.t = "number" -> x.v # 0
      [] x.t = "string" -> IF "chars" \in DOMAIN x THEN x.chars # <<>> ELSE x.v # ""
      [] OTHER -> TRUE

\* a || b
Or(a, b) == IF IsThrown(a) THEN a ELSE IF Truthy(a) THEN a ELSE b

\* a && b
And(a, b) == IF IsThrown(a) THEN a ELSE IF Truthy(a) THEN b ELSE a

\* c ? a : b
Cond(c, a, b) == IF IsThrown(c) THEN c ELSE IF Truthy(c) THEN a ELSE b

\* a === b on primitives
StrictEq(a, b) == IF IsThrown(a) THEN a ELSE IF IsThrown(b) THEN b ELSE Bool(a = b)

\* o.k : undefined when o has no property k, a TypeError when o is null or undefined
Get(o, k) ==
    IF IsThrown(o) \/ o.t \in {"undefined", "null"} THEN TypeError
    ELSE IF o.t = "object" /\ k \in DOMAIN o.f THEN o.f[k]
    ELSE Undefined

\* { k: v, ... } : evaluating any property that throws makes the literal throw
Obj(fields) ==
    IF \E k \in DOMAIN fields : IsThrown(fields[k]) THEN TypeError
    ELSE [t |-> "object", f |-> fields]

\* the object o with property k set to v (o[k] = v, or a source record that has k)
With(o, k, v) == [t |-> "object", f |-> (k :> v) @@ o.f]

\* how a call ended
Outcome(v) == IF IsThrown(v) THEN [pc |-> "throw", ret |-> Undefined]
              ELSE [pc |-> "return", ret |-> v]

----------------------------------------------------------------------------
(* Accounts, refs and pull requests (REST).                                *)

\* an account whose url is the avatar's
convertRESTUserToAccount_UrlFromAvatar(user) ==
    Obj([login |-> Get(user, "login"),
         url |-> Get(user, "avatar_url"),
         avatarUrl |-> Get(user, "avatar_url")])

convertRESTUserToAccount(user) ==
    Obj([login |-> Get(user, "login"),
         url |-> Get(user, "html_url"),
         avatarUrl |-> Get(user, "avatar_url")])

convertRESTHeadToIGitHubRef(head) ==
    Obj([label |-> Get(head, "label"),
         ref |-> Get(head, "ref"),
         sha |-> Get(head, "sha"),
         repo |-> Obj([cloneUrl |-> Get(Get(head, "repo"), "clone_url")])])

\* merged copied without its default
PullRequestMerged_NoDefault(pullRequest) == Get(pullRequest, "merged")

\* (pullRequest as Octokit.PullRequestsGetResponse).merged || false
PullRequestMerged(pullRequest) == Or(Get(pullRequest, "merged"), Bool(FALSE))

convertRESTPullRequestToRawPullRequest(pullRequest) ==
    LET assignee == Get(pullRequest, "assignee") IN
    Obj([number |-> Get(pullRequest, "number"),
         body |-> Get(pullRequest, "body"),
         title |-> Get(pullRequest, "title"),
         url |-> Get(pullRequest, "html_url"),
         user |-> convertRESTUserToAccount(Get(pullRequest, "user")),
         state |-> Get(pullRequest, "state"),
         merged |-> PullRequestMerged(pullRequest),
         assignee |-> Cond(assignee, convertRESTUserToAccount(assignee), Null),
         createdAt |-> Get(pullRequest, "created_at"),
         updatedAt |-> Get(pullRequest, "updated_at"),
         head |-> convertRESTHeadToIGitHubRef(Get(pullRequest, "head")),
         base |-> convertRESTHeadToIGitHubRef(Get(pullRequest, "base")),
         labels |-> Get(pullRequest, "labels"),
         mergeable |-> Get(pullRequest, "mergeable"),
         nodeId |-> Get(pullRequest, "node_id")])

----------------------------------------------------------------------------
(* The diff-hunk parser, parseDiffHunk, as the design document describes   *)
(* it: the text is scanned line by line; a line matching the header        *)
(* pattern  @@ -<oldStart>,<oldLen> +<newStart>,<newLen> @@  opens a hunk  *)
(* and sets the two cursors; every later line up to the next header is     *)
(* classified by its first character.  The parser is a generator: a hunk   *)
(* is yielded when the next header is met or the text ends.                *)
(*                                                                         *)
(* Texts and lines are sequences of one-character strings.  The header     *)
(* form that leaves a count out is not among the texts drawn: no source    *)
(* says which count it stands for.                                         *)

DigitChars == <<"0", "1", "2", "3", "4", "5", "6", "7", "8", "9">>
IsDigit(c) == \E i \in 1..10 : DigitChars[i] = c
DigitVal(c) == (CHOOSE i \in 1..10 : DigitChars[i] = c) - 1

StartsWith(s, p) == Len(s) >= Len(p) /\ SubSeq(s, 1, Len(p)) = p
Drop(s, n) == SubSeq(s, n + 1, Len(s))

\* the length of the longest prefix of s made of digits
RECURSIVE DigitRun(_)
DigitRun(s) == IF s # <<>> /\ IsDigit(Head(s)) THEN 1 + DigitRun(Tail(s)) ELSE 0

\* Number("103") = 103
RECURSIVE Number(_)
Number(ds) ==
    IF ds = <<>> THEN 0
    ELSE Number(SubSeq(ds, 1, Len(ds) - 1)) * 10 + DigitVal(ds[Len(ds)])

\* the text split at its line feeds
RECURSIVE LineReader(_)
LineReader(text) ==
    IF \E i \in 1..Len(text) : text[i] = "\n"
    THEN LET i == CHOOSE j \in 1..Len(text) :
                      text[j] = "\n" /\ \A k \in 1..(j - 1) : text[k] # "\n"
         IN <<SubSeq(text, 1, i - 1)>> \o LineReader(Drop(text, i))
    ELSE <<text>>

NoMatch == [ok |-> FALSE]

\* the number read at the start of s, and what follows it
ReadNumber(s) ==
    LET n == DigitRun(s) IN
    [ok |-> n > 0, val |-> Number(SubSeq(s, 1, n)), rest |-> Drop(s, n)]

\* a matcher that reads the two counts into each other's field
MatchHeader_SwapsCounts(line) ==
    IF ~StartsWith(line, <<"@", "@", " ", "-">>) THEN NoMatch ELSE
    LET a == ReadNumber(Drop(line, 4)) IN
    IF ~a.ok \/ ~StartsWith(a.rest, <<",">>) THEN NoMatch ELSE
    LET b == ReadNumber(Drop(a.rest, 1)) IN
    IF ~b.ok \/ ~StartsWith(b.rest, <<" ", "+">>) THEN NoMatch ELSE
    LET c == ReadNumber(Drop(b.rest, 2)) IN
    IF ~c.ok \/ ~StartsWith(c.rest, <<",">>) THEN NoMatch ELSE
    LET d == ReadNumber(Drop(c.rest, 1)) IN
    IF ~d.ok \/ ~StartsWith(d.rest, <<" ", "@", "@">>) THEN NoMatch ELSE
    [ok |-> TRUE, oldStart |-> a.val, oldLen |-> d.val,
     newStart |-> c.val, newLen |-> b.val]

\* DIFF_HUNK_HEADER: ^@@ -(\d+),(\d+) \+(\d+),(\d+) @@
MatchHeader(line) ==
    IF ~StartsWith(line, <<"@", "@", " ", "-">>) THEN NoMatch ELSE
    LET a == ReadNumber(Drop(line, 4)) IN
    IF ~a.ok \/ ~StartsWith(a.rest, <<",">>) THEN NoMatch ELSE
    LET b == ReadNumber(Drop(a.rest, 1)) IN
    IF ~b.ok \/ ~StartsWith(b.rest, <<" ", "+">>) THEN NoMatch ELSE
    LET c == ReadNumber(Drop(b.rest, 2)) IN
    IF ~c.ok \/ ~StartsWith(c.rest, <<",">>) THEN NoMatch ELSE
    LET d == ReadNumber(Drop(c.rest, 1)) IN
    IF ~d.ok \/ ~StartsWith(d.rest, <<" ", "@", "@">>) THEN NoMatch ELSE
    [ok |-> TRUE, oldStart |-> a.val, oldLen |-> b.val,
     newStart |-> c.val, newLen |-> d.val]

\* a line that sets out as a header and does not match the pattern
IsMalformedHeader(line) == StartsWith(line, <<"@", "@">>) /\ ~MatchHeader(line).ok

\* no line number
None == -1

\* a record builder that gives a removed line the new-line number as well
DiffLine_RemovedTakesNew(line, oldLine, newLine) ==
    LET content == IF line = <<>> THEN <<>> ELSE Tail(line) IN
    IF line # <<>> /\ Head(line) = "+"
    THEN [type |-> "added", oldLineNumber |-> None,
          newLineNumber |-> newLine, content |-> content]
    ELSE IF line # <<>> /\ Head(line) = "-"
    THEN [type |-> "removed", oldLineNumber |-> oldLine,
          newLineNumber |-> newLine, content |-> content]
    ELSE [type |-> "context", oldLineNumber |-> oldLine,
          newLineNumber |-> newLine, content |-> content]

\* the edit record of one body line, numbered by the two cursors
DiffLine(line, oldLine, newLine) ==
    LET content == IF line = <<>> THEN <<>> ELSE Tail(line) IN
    IF line # <<>> /\ Head(line) = "+"
    THEN [type |-> "added", oldLineNumber |-> None,
          newLineNumber |-> newLine, content |-> content]
    ELSE IF line # <<>> /\ Head(line) = "-"
    THEN [type |-> "removed", oldLineNumber |-> oldLine,
          newLineNumber |-> None, content |-> content]
    ELSE [type |-> "context", oldLineNumber |-> oldLine,
          newLineNumber |-> newLine, content |-> content]

\* what the design document leaves open for a malformed header:
\*   "context":   the line matches no header, so it is one more body line;
\*   "abortNew":  the hunk it would open is abandoned: the hunk before it ends
\*                there and the lines up to the next header are ignored;
\*   "abortOpen": the hunk that is open is abandoned with it.
MalformedPolicies == {"context", "abortNew", "abortOpen"}

\* new DiffHunk(oldStart, oldLen, newStart, newLen)
DiffHunk(m) ==
    [oldStart |-> m.oldStart, oldLen |-> m.oldLen,
     newStart |-> m.newStart, newLen |-> m.newLen, diffLines |-> <<>>]

\* the generator's hunk variable while no hunk is open
NoHunk == DiffHunk([oldStart |-> 0, oldLen |-> 0, newStart |-> 0, newLen |-> 0])

\* the generator at its start: nothing is scanned before the first next()
parseDiffHunk(text, policy) ==
    [lines |-> LineReader(text), i |-> 1, open |-> FALSE, hunk |-> NoHunk,
     oldLine |-> None, newLine |-> None, policy |-> policy]

\* reader.next(): scan on to the next yield, or to the end of the text
RECURSIVE ReaderNext(_)
ReaderNext(r) ==
    IF r.i > Len(r.lines) THEN
        IF r.open
        THEN [done |-> FALSE, value |-> r.hunk,
              reader |-> [r EXCEPT !.open = FALSE, !.hunk = NoHunk]]
        ELSE [done |-> TRUE, value |-> Undefined, reader |-> r]
    ELSE
    LET line == r.lines[r.i]
        m == MatchHeader(line)
        skipped == [r EXCEPT !.i = @ + 1]
        closed == [r EXCEPT !.i = @ + 1, !.open = FALSE, !.hunk = NoHunk]
    IN
    IF m.ok THEN
        LET opened == [r EXCEPT !.i = @ + 1, !.open = TRUE, !.hunk = DiffHunk(m),
                                !.oldLine = m.oldStart, !.newLine = m.newStart]
        IN IF r.open
           THEN [done |-> FALSE, value |-> r.hunk, reader |-> opened]
           ELSE ReaderNext(opened)
    ELSE IF IsMalformedHeader(line) /\ r.policy = "abortNew" THEN
        IF r.open
        THEN [done |-> FALSE, value |-> r.hunk, reader |-> closed]
        ELSE ReaderNext(closed)
    ELSE IF IsMalformedHeader(line) /\ r.policy = "abortOpen" THEN
        ReaderNext(closed)
    ELSE IF r.open THEN
        LET rec == DiffLine(line, r.oldLine, r.newLine) IN
        ReaderNext([r EXCEPT
            !.i = @ + 1,
            !.hunk.diffLines = Append(@, rec),
            !.oldLine = IF rec.oldLineNumber # None THEN @ + 1 ELSE @,
            !.newLine = IF rec.newLineNumber # None THEN @ + 1 ELSE @])
    ELSE ReaderNext(skipped)

----------------------------------------------------------------------------
(* Comments.                                                               *)

\* the while loop of parseCommentDiffHunk
RECURSIVE DrainReader(_, _)
DrainReader(diffHunkIter, diffHunks) ==
    IF diffHunkIter.done THEN diffHunks
    ELSE DrainReader(ReaderNext(diffHunkIter.reader),
                     Append(diffHunks, diffHunkIter.value))

\* a loop that stops after the first hunk
parseCommentDiffHunk_FirstOnly(comment, policy) ==
    LET diffHunkIter == ReaderNext(parseDiffHunk(Get(comment, "diffHunk").chars, policy))
    IN Arr(IF diffHunkIter.done THEN <<>> ELSE <<diffHunkIter.value>>)

\* comment is a Comment whose diffHunk is a Text
parseCommentDiffHunk(comment, policy) ==
    LET diffHunkReader == parseDiffHunk(Get(comment, "diffHunk").chars, policy)
        diffHunkIter == ReaderNext(diffHunkReader)
    IN Arr(DrainReader(diffHunkIter, <<>>))

convertIssuesCreateCommentResponseToComment(comment) ==
    Obj([url |-> Get(comment, "url"),
         id |-> Get(comment, "id"),
         diffHunk |-> Text(<<>>),
         diffHunks |-> Arr(<<>>),
         path |-> Null,
         position |-> Null,
         commitId |-> Null,
         originalPosition |-> Null,
         originalCommitId |-> Null,
         user |-> convertRESTUserToAccount(Get(comment, "user")),
         body |-> Get(comment, "body"),
         createdAt |-> Get(comment, "created_at"),
         htmlUrl |-> Get(comment, "html_url"),
         graphNodeId |-> Get(comment, "node_id")])

convertPullRequestsGetCommentsResponseItemToComment(comment, policy) ==
    LET r == Obj([url |-> Get(comment, "url"),
                  id |-> Get(comment, "id"),
                  pullRequestReviewId |-> Get(comment, "pull_request_review_id"),
                  diffHunk |-> Get(comment, "diff_hunk"),
                  path |-> Get(comment, "path"),
                  position |-> Get(comment, "position"),
                  commitId |-> Get(comment, "commit_id"),
                  originalPosition |-> Get(comment, "original_position"),
                  originalCommitId |-> Get(comment, "original_commit_id"),
                  user |-> convertRESTUserToAccount(Get(comment, "user")),
                  body |-> Get(comment, "body"),
                  createdAt |-> Get(comment, "created_at"),
                  htmlUrl |-> Get(comment, "html_url"),
                  graphNodeId |-> Get(comment, "node_id")])
    IN IF IsThrown(r) THEN r
       ELSE With(r, "diffHunks", parseCommentDiffHunk(r, policy))

parseGraphQLComment(comment, policy) ==
    LET c == Obj([id |-> Get(comment, "databaseId"),
                  url |-> Get(comment, "url"),
                  body |-> Get(comment, "body"),
                  path |-> Get(comment, "path"),
                  canEdit |-> Get(comment, "viewerCanDelete"),
                  canDelete |-> Get(comment, "viewerCanDelete"),
                  pullRequestReviewId |->
                      And(Get(comment, "pullRequestReview"),
                          Get(Get(comment, "pullRequestReview"), "databaseId")),
                  diffHunk |-> Get(comment, "diffHunk"),
                  position |-> Get(comment, "position"),
                  commitId |-> Get(Get(comment, "commit"), "oid"),
                  originalPosition |-> Get(comment, "originalPosition"),
                  originalCommitId |->
                      And(Get(comment, "originalCommit"),
                          Get(Get(comment, "originalCommit"), "oid")),
                  user |-> Get(comment, "author"),
                  createdAt |-> Get(comment, "createdAt"),
                  htmlUrl |-> Get(comment, "url"),
                  graphNodeId |-> Get(comment, "id"),
                  isDraft |-> StrictEq(Get(comment, "state"), Str("PENDING"))])
    IN IF IsThrown(c) THEN c
       ELSE With(c, "diffHunks", parseCommentDiffHunk(c, policy))

----------------------------------------------------------------------------
(* Timeline events and pull requests (GraphQL).                            *)

\* Common.EventType: the members utils.ts names, as distinct values
EventType ==
    [n \in {"Committed", "Labeled", "Milestoned", "Assigned", "Commented",
            "Reviewed", "Merged", "Other"} |-> [t |-> "EventType", v |-> n]]

\* a switch whose 'MergedEvent' case is missing
convertGraphQLEventType_NoMergedCase(text) ==
    CASE text = Str("Commit") -> EventType.Committed
      [] text = Str("LabeledEvent") -> EventType.Labeled
      [] text = Str("MilestonedEvent") -> EventType.Milestoned
      [] text = Str("AssignedEvent") -> EventType.Assigned
      [] text = Str("IssueComment") -> EventType.Commented
      [] text = Str("PullRequestReview") -> EventType.Reviewed
      [] OTHER -> EventType.Other

convertGraphQLEventType(text) ==
    CASE text = Str("Commit") -> EventType.Committed
      [] text = Str("LabeledEvent") -> EventType.Labeled
      [] text = Str("MilestonedEvent") -> EventType.Milestoned
      [] text = Str("AssignedEvent") -> EventType.Assigned
      [] text = Str("IssueComment") -> EventType.Commented
      [] text = Str("PullRequestReview") -> EventType.Reviewed
      [] text = Str("MergedEvent") -> EventType.Merged
      [] OTHER -> EventType.Other

\* headRef ? { label, ref, sha, repo } : undefined
GraphQLRef(r) ==
    Cond(r,
         Obj([label |-> Get(r, "name"),
              ref |-> Get(Get(r, "repository"), "nameWithOwner"),
              sha |-> Get(Get(r, "target"), "oid"),
              repo |-> Obj([cloneUrl |-> Get(Get(r, "repository"), "url")])]),
         Undefined)

parseGraphQLPullRequest(pullRequest) ==
    LET graphQLPullRequest == Get(Get(pullRequest, "repository"), "pullRequest") IN
    Obj([url |-> Get(graphQLPullRequest, "url"),
         number |-> Get(graphQLPullRequest, "number"),
         state |-> Get(graphQLPullRequest, "state"),
         body |-> Get(graphQLPullRequest, "body"),
         bodyHTML |-> Get(graphQLPullRequest, "bodyHTML"),
         title |-> Get(graphQLPullRequest, "title"),
         createdAt |-> Get(graphQLPullRequest, "createdAt"),
         updatedAt |-> Get(graphQLPullRequest, "updatedAt"),
         head |-> GraphQLRef(Get(graphQLPullRequest, "headRef")),
         base |-> GraphQLRef(Get(graphQLPullRequest, "baseRef")),
         user |-> Get(graphQLPullRequest, "author"),
         merged |-> Get(graphQLPullRequest, "merged"),
         mergeable |-> Get(graphQLPullRequest, "mergeable"),
         nodeId |-> Get(graphQLPullRequest, "id"),
         labels |-> Arr(<<>>)])

\* the body of the forEach callback: what one event pushes onto ret
TimelineEventOf(event) ==
    LET type == convertGraphQLEventType(Get(event, "__typename")) IN
    CASE type = EventType.Commented ->
            <<Obj([htmlUrl |-> Get(event, "url"),
                   body |-> Get(event, "body"),
                   bodyHTML |-> Get(event, "bodyHTML"),
                   user |-> Get(event, "author"),
                   event |-> type,
                   canEdit |-> Get(event, "viewerCanUpdate"),
                   canDelete |-> Get(event, "viewerCanDelete"),
                   id |-> Get(event, "databaseId"),
                   createdAt |-> Get(event, "createdAt")])>>
      [] type = EventType.Reviewed ->
            <<Obj([event |-> type,
                   comments |-> Arr(<<>>),
                   submittedAt |-> Get(event, "submittedAt"),
                   body |-> Get(event, "body"),
                   bodyHTML |-> Get(event, "bodyHTML"),
                   htmlUrl |-> Get(event, "url"),
                   user |-> Get(event, "author"),
                   authorAssociation |-> Get(event, "authorAssociation"),
                   state |-> Get(event, "state"),
                   id |-> Get(event, "databaseId")])>>
      [] type = EventType.Committed ->
            <<Obj([event |-> type,
                   sha |-> Get(event, "oid"),
                   author |->
                       Or(Get(Get(event, "author"), "user"),
                          Obj([login |-> Get(Get(event, "committer"), "name"),
                               avatarUrl |-> Get(Get(event, "committer"), "avatarUrl")])),
                   htmlUrl |-> Get(event, "url"),
                   message |-> Get(event, "message")])>>
      [] type = EventType.Merged ->
            <<Obj([event |-> type,
                   user |-> Get(event, "actor"),
                   createdAt |-> Get(event, "createdAt"),
                   mergeRef |-> Get(Get(event, "mergeRef"), "name"),
                   sha |-> Get(Get(event, "commit"), "oid"),
                   commitUrl |-> Get(Get(event, "commit"), "commitUrl"),
                   url |-> Get(event, "url"),
                   graphNodeId |-> Get(event, "id")])>>
      [] type = EventType.Assigned ->
            <<Obj([event |-> type,
                   user |-> Get(event, "user"),
                   actor |-> Get(event, "actor")])>>
      [] OTHER -> <<>>

\* events.forEach(...): an exception in the callback ends the whole call
RECURSIVE ForEachPush(_, _)
ForEachPush(events, r) ==
    IF events = <<>> THEN Arr(r)
    ELSE LET pushed == TimelineEventOf(Head(events)) IN
         IF pushed # <<>> /\ IsThrown(pushed[1]) THEN TypeError
         ELSE ForEachPush(Tail(events), r \o pushed)

parseGraphQLTimelineEvents(events) == ForEachPush(events.v, <<>>)

----------------------------------------------------------------------------
(* Timeline events (REST): the events are changed in place.                *)

\* a callback whose Committed branch is taken by Commented events as well
RESTEventCallback_CommentedToo(event) ==
    LET reviewed ==
            IF Get(event, "event") = EventType.Reviewed
            THEN With(With(event, "submittedAt", Get(event, "submitted_at")),
                      "htmlUrl", Get(event, "html_url"))
            ELSE event
    IN IF Get(reviewed, "event") \in {EventType.Committed, EventType.Commented}
       THEN With(reviewed, "htmlUrl", Get(reviewed, "html_url"))
       ELSE reviewed

\* the body of the forEach callback: the event after the assignments
RESTEventCallback(event) ==
    LET reviewed ==
            IF Get(event, "event") = EventType.Reviewed
            THEN With(With(event, "submittedAt", Get(event, "submitted_at")),
                      "htmlUrl", Get(event, "html_url"))
            ELSE event
    IN IF Get(reviewed, "event") = EventType.Committed
       THEN With(reviewed, "htmlUrl", Get(reviewed, "html_url"))
       ELSE reviewed

\* the list's elements after events.forEach(...)
convertRESTTimelineEvents(events) ==
    [i \in DOMAIN events |-> RESTEventCallback(events[i])]

----------------------------------------------------------------------------
(* The arguments drawn.                                                    *)

\* how a nullable property of a source record may come
Presence == {"present", "null", "absent"}
Opt(o, k, presence, v) ==
    CASE presence = "present" -> With(o, k, v)
      [] presence = "null" -> With(o, k, Null)
      [] OTHER -> o

RESTUser(type) ==
    Obj([login |-> Str("octocat"), html_url |-> Str("https://github.com/octocat"),
         avatar_url |-> Str("https://avatars/1"), type |-> Str(type)])
RESTUsers == {RESTUser(type) : type \in {"User", "Organization", "Bot"}}

RESTHead(name) ==
    Obj([label |-> Str("octocat:" \o name), ref |-> Str(name), sha |-> Str("sha-" \o name),
         repo |-> Obj([clone_url |-> Str("https://github.com/octocat/repo.git")])])

RESTPullRequestBase ==
    Obj([number |-> Num(7), body |-> Str("body"), title |-> Str("title"),
         html_url |-> Str("https://github.com/octocat/repo/pull/7"),
         user |-> RESTUser("User"), state |-> Str("open"),
         created_at |-> Str("2018-10-01"), updated_at |-> Str("2018-10-02"),
         head |-> RESTHead("feature"), base |-> RESTHead("master"),
         labels |-> Arr(<<>>), node_id |-> Str("PR_7")])

\* merged comes with PullRequestsGetResponse only; absent stands for the other shapes
MergedValues == {Undefined, Null, Bool(FALSE), Bool(TRUE)}
RESTPullRequests ==
    {Opt(pr, "assignee", a, RESTUser("User")) :
        pr \in {RESTPullRequestBase}
               \cup {With(RESTPullRequestBase, "merged", m) : m \in MergedValues},
        a \in Presence}

GraphQLRefObj(name) ==
    Obj([name |-> Str(name),
         repository |-> Obj([nameWithOwner |-> Str("octocat/repo"),
                             url |-> Str("https://github.com/octocat/repo")]),
         target |-> Obj([oid |-> Str("sha-" \o name)])])

GraphQLPullRequestBase ==
    Obj([url |-> Str("https://github.com/octocat/repo/pull/7"), number |-> Num(7),
         state |-> Str("OPEN"), body |-> Str("body"), bodyHTML |-> Str("<p>body</p>"),
         title |-> Str("title"), createdAt |-> Str("2018-10-01"),
         updatedAt |-> Str("2018-10-02"),
         author |-> Obj([login |-> Str("octocat")]),
         merged |-> Bool(FALSE), mergeable |-> Str("MERGEABLE"), id |-> Str("PR_7")])

GraphQLPullRequests ==
    {Obj([repository |-> Obj([pullRequest |->
            Opt(Opt(GraphQLPullRequestBase, "headRef", h, GraphQLRefObj("feature")),
                "baseRef", b, GraphQLRefObj("master"))])]) :
        h \in Presence, b \in Presence}

\* decimal digits of n
RECURSIVE FormatNat(_)
FormatNat(n) ==
    IF n < 10 THEN <<DigitChars[n + 1]>>
    ELSE FormatNat(n \div 10) \o <<DigitChars[(n % 10) + 1]>>

\* the header line of a hunk with these numbers
FormatHeader(oldStart, oldLen, newStart, newLen) ==
    <<"@", "@", " ", "-">> \o FormatNat(oldStart) \o <<",">> \o FormatNat(oldLen)
    \o <<" ", "+">> \o FormatNat(newStart) \o <<",">> \o FormatNat(newLen)
    \o <<" ", "@", "@">>

\* the numbers written in the headers drawn
HeaderNumbers == {<<10, 3, 10, 4>>, <<1, 2, 1, 1>>}
HeaderOf(n) == FormatHeader(n[1], n[2], n[3], n[4])

ExampleHeader == HeaderOf(<<10, 3, 10, 4>>)

\* the lines texts are made of: two headers (one followed by a section heading),
\* a malformed header, and body lines with each marker and with none
LinePool ==
    {ExampleHeader,
     HeaderOf(<<1, 2, 1, 1>>) \o <<" ", "f", "n">>,
     <<"@", "@", " ", "-", "x", ",", "3", " ", "+", "1", ",", "1", " ", "@", "@">>,
     <<" ", "a">>, <<"-", "b">>, <<"+", "c">>, <<>>}

\* lines joined by line feeds
RECURSIVE JoinLines(_)
JoinLines(ls) ==
    IF Len(ls) = 0 THEN <<>>
    ELSE IF Len(ls) = 1 THEN ls[1]
    ELSE ls[1] \o <<"\n">> \o JoinLines(Tail(ls))

\* @@ -10,3 +10,4 @@ followed by " a", "-b", "+c", "+d"
ExampleText ==
    JoinLines(<<ExampleHeader, <<" ", "a">>, <<"-", "b">>, <<"+", "c">>, <<"+", "d">>>>)

Texts ==
    {JoinLines(ls) : ls \in UNION {[1..n -> LinePool] : n \in 0..MaxLines}}
    \cup {ExampleText}

RESTCommentBase ==
    Obj([url |-> Str("https://api.github.com/comments/1"), id |-> Num(1),
         user |-> RESTUser("User"), body |-> Str("looks good"),
         created_at |-> Str("2018-10-03"),
         html_url |-> Str("https://github.com/octocat/repo/pull/7#r1"),
         node_id |-> Str("C_1")])

IssueComments == {RESTCommentBase, With(RESTCommentBase, "body", Str(""))}

RESTReviewComment(text) ==
    With(Obj([pull_request_review_id |-> Num(3), diff_hunk |-> Text(text),
              path |-> Str("src/a.ts"), position |-> Num(2), commit_id |-> Str("c2"),
              original_position |-> Num(1), original_commit_id |-> Str("c1")]
             @@ RESTCommentBase.f),
         "id", Num(2))
RESTReviewComments == {RESTReviewComment(text) : text \in Texts}

\* a Comment that has its diffHunk and not yet its diffHunks
BareComments == {Obj([diffHunk |-> Text(text)]) : text \in Texts}

GraphQLCommentBase(text, canUpdate, canDelete, state) ==
    Obj([databaseId |-> Num(2), url |-> Str("https://github.com/octocat/repo/pull/7#r2"),
         body |-> Str("looks good"), path |-> Str("src/a.ts"),
         viewerCanUpdate |-> Bool(canUpdate), viewerCanDelete |-> Bool(canDelete),
         diffHunk |-> Text(text), position |-> Num(2), originalPosition |-> Num(1),
         author |-> Obj([login |-> Str("octocat")]), createdAt |-> Str("2018-10-03"),
         id |-> Str("C_2"), state |-> Str(state)])

GraphQLComments ==
    {Opt(Opt(Opt(GraphQLCommentBase(text, u, d, s),
                 "pullRequestReview", r, Obj([databaseId |-> Num(3)])),
             "originalCommit", o, Obj([oid |-> Str("c1")])),
         "commit", c, Obj([oid |-> Str("c2")])) :
        text \in {<<>>, ExampleText}, u \in BOOLEAN, d \in BOOLEAN,
        s \in {"PENDING", "SUBMITTED"}, r \in Presence, o \in Presence, c \in Presence}

\* __typename values: the seven the switch names, and others
TypeNames ==
    {Str(n) : n \in {"Commit", "LabeledEvent", "MilestonedEvent", "AssignedEvent",
                     "IssueComment", "PullRequestReview", "MergedEvent",
                     "ReviewRequestedEvent", "commit", "Merged", "Other", ""}}
    \cup {Undefined}

GraphQLActor == Obj([login |-> Str("octocat"), avatarUrl |-> Str("https://avatars/1")])

GraphQLCommits ==
    LET base == Obj([__typename |-> Str("Commit"), oid |-> Str("c2"),
                     committer |-> Obj([name |-> Str("Octo Cat"),
                                        avatarUrl |-> Str("https://avatars/2")]),
                     url |-> Str("https://github.com/octocat/repo/commit/c2"),
                     message |-> Str("fix")])
    IN {With(base, "author", Obj([user |-> GraphQLActor])),
        With(base, "author", Obj([user |-> Null])),
        With(base, "author", Null),
        base}

GraphQLMerges ==
    LET base == Obj([__typename |-> Str("MergedEvent"), id |-> Str("ME_1"),
                     actor |-> GraphQLActor, createdAt |-> Str("2018-10-04"),
                     url |-> Str("https://github.com/octocat/repo/pull/7#event-1")])
        ref == Obj([name |-> Str("master")])
        commit == Obj([oid |-> Str("c3"),
                       commitUrl |-> Str("https://github.com/octocat/repo/commit/c3")])
    IN {With(With(base, "mergeRef", ref), "commit", commit),
        With(With(base, "mergeRef", Null), "commit", commit),
        With(With(base, "mergeRef", ref), "commit", Null)}

GraphQLEventPool ==
    GraphQLCommits \cup GraphQLMerges
    \cup {Obj([__typename |-> Str("IssueComment"), url |-> Str("https://c/1"),
               body |-> Str("hi"), bodyHTML |-> Str("<p>hi</p>"), author |-> GraphQLActor,
               viewerCanUpdate |-> Bool(TRUE), viewerCanDelete |-> Bool(FALSE),
               databaseId |-> Num(11), createdAt |-> Str("2018-10-03")]),
          Obj([__typename |-> Str("PullRequestReview"), submittedAt |-> Str("2018-10-03"),
               body |-> Str("ok"), bodyHTML |-> Str("<p>ok</p>"), url |-> Str("https://r/1"),
               author |-> GraphQLActor, authorAssociation |-> Str("OWNER"),
               state |-> Str("APPROVED"), databaseId |-> Num(12)]),
          Obj([__typename |-> Str("AssignedEvent"), user |-> GraphQLActor,
               actor |-> GraphQLActor]),
          Obj([__typename |-> Str("LabeledEvent")]),
          Obj([__typename |-> Str("MilestonedEvent")]),
          Obj([__typename |-> Str("ReviewRequestedEvent")])}

GraphQLTimelines ==
    {Arr(es) : es \in UNION {[1..n -> GraphQLEventPool] : n \in 0..MaxEvents}}

RESTEventPool ==
    {Obj([event |-> EventType.Reviewed, id |-> Num(21), submitted_at |-> Str("2018-10-03"),
          html_url |-> Str("https://r/21"), state |-> Str("approved")]),
     Obj([event |-> EventType.Reviewed, id |-> Num(22), htmlUrl |-> Str("https://old/22"),
          state |-> Str("commented")]),
     Obj([event |-> EventType.Committed, sha |-> Str("c2"), html_url |-> Str("https://c/c2"),
          htmlUrl |-> Str("https://old/c2")]),
     Obj([event |-> EventType.Committed, sha |-> Str("c3"), html_url |-> Str("https://c/c3")]),
     Obj([event |-> EventType.Commented, id |-> Num(23), html_url |-> Str("https://i/23"),
          submitted_at |-> Str("2018-10-05")]),
     Obj([event |-> EventType.Labeled, html_url |-> Str("https://l/1")])}

RESTTimelines == UNION {[1..n -> RESTEventPool] : n \in 0..MaxEvents}

DiffFns == {"parseCommentDiffHunk", "convertPullRequestsGetCommentsResponseItemToComment",
            "parseGraphQLComment"}

NoHeap == <<>>

Call(f, a) == [fn |-> f, arg |-> a, heap |-> NoHeap]

Calls ==
    {Call("convertRESTUserToAccount", a) : a \in RESTUsers}
    \cup {Call("convertRESTHeadToIGitHubRef", RESTHead(n)) : n \in {"feature", "master"}}
    \cup {Call("convertRESTPullRequestToRawPullRequest", a) : a \in RESTPullRequests}
    \cup {Call("parseCommentDiffHunk", a) : a \in BareComments}
    \cup {Call("convertIssuesCreateCommentResponseToComment", a) : a \in IssueComments}
    \cup {Call("convertPullRequestsGetCommentsResponseItemToComment", a) :
            a \in RESTReviewComments}
    \cup {Call("convertGraphQLEventType", a) : a \in TypeNames}
    \cup {Call("parseGraphQLComment", a) : a \in GraphQLComments}
    \cup {Call("parseGraphQLPullRequest", a) : a \in GraphQLPullRequests}
    \cup {Call("parseGraphQLTimelineEvents", a) : a \in GraphQLTimelines}
    \cup {[fn |-> "convertRESTTimelineEvents", arg |-> Ref(1), heap |-> <<es>>] :
            es \in RESTTimelines}

----------------------------------------------------------------------------
(* The state machine.                                                      *)

Init ==
    /\ \E c \in Calls :
        /\ fn = c.fn
        /\ arg = c.arg
        /\ heap = c.heap
        /\ malformedPolicy \in IF c.fn \in DiffFns THEN MalformedPolicies ELSE {"context"}
    /\ pc = "call"
    /\ ret = Undefined
    /\ heapBefore = heap
    /\ applied = 0

\* the call of a function that changes nothing it is given ends with v
Finish(v) ==
    /\ pc = "call"
    /\ pc' = Outcome(v).pc
    /\ ret' = Outcome(v).ret
    /\ applied' = applied + 1
    /\ heapBefore' = heap
    /\ UNCHANGED <<fn, arg, malformedPolicy, heap>>

Call_convertRESTUserToAccount ==
    fn = "convertRESTUserToAccount" /\ Finish(convertRESTUserToAccount(arg))

Call_convertRESTHeadToIGitHubRef ==
    fn = "convertRESTHeadToIGitHubRef" /\ Finish(convertRESTHeadToIGitHubRef(arg))

Call_convertRESTPullRequestToRawPullRequest ==
    /\ fn = "convertRESTPullRequestToRawPullRequest"
    /\ Finish(convertRESTPullRequestToRawPullRequest(arg))

Call_parseCommentDiffHunk ==
    fn = "parseCommentDiffHunk" /\ Finish(parseCommentDiffHunk(arg, malformedPolicy))

Call_convertIssuesCreateCommentResponseToComment ==
    /\ fn = "convertIssuesCreateCommentResponseToComment"
    /\ Finish(convertIssuesCreateCommentResponseToComment(arg))

Call_convertPullRequestsGetCommentsResponseItemToComment ==
    /\ fn = "convertPullRequestsGetCommentsResponseItemToComment"
    /\ Finish(convertPullRequestsGetCommentsResponseItemToComment(arg, malformedPolicy))

Call_convertGraphQLEventType ==
    fn = "convertGraphQLEventType" /\ Finish(convertGraphQLEventType(arg))

Call_parseGraphQLComment ==
    fn = "parseGraphQLComment" /\ Finish(parseGraphQLComment(arg, malformedPolicy))

Call_parseGraphQLPullRequest ==
    fn = "parseGraphQLPullRequest" /\ Finish(parseGraphQLPullRequest(arg))

Call_parseGraphQLTimelineEvents ==
    fn = "parseGraphQLTimelineEvents" /\ Finish(parseGraphQLTimelineEvents(arg))

\* the list is changed in place and returned; its result may be converted once more
Call_convertRESTTimelineEvents ==
    /\ fn = "convertRESTTimelineEvents"
    /\ \/ pc = "call" /\ applied = 0
       \/ pc = "return" /\ applied = 1
    /\ LET events == IF pc = "call" THEN arg ELSE ret IN
        /\ heap' = [heap EXCEPT ![events.id] = convertRESTTimelineEvents(@)]
        /\ ret' = events
    /\ pc' = "return"
    /\ applied' = applied + 1
    /\ heapBefore' = heap
    /\ UNCHANGED <<fn, arg, malformedPolicy>>

Next ==
    \/ Call_convertRESTUserToAccount
    \/ Call_convertRESTHeadToIGitHubRef
    \/ Call_convertRESTPullRequestToRawPullRequest
    \/ Call_parseCommentDiffHunk
    \/ Call_convertIssuesCreateCommentResponseToComment
    \/ Call_convertPullRequestsGetCommentsResponseItemToComment
    \/ Call_convertGraphQLEventType
    \/ Call_parseGraphQLComment
    \/ Call_parseGraphQLPullRequest
    \/ Call_parseGraphQLTimelineEvents
    \/ Call_convertRESTTimelineEvents

Spec == Init /\ [][Next]_vars

----------------------------------------------------------------------------
(* What the properties below are stated with: the lines of a text by the   *)
(* positions of its line feeds, the headers by the numbers written in      *)
(* them, and the hunks of a text by position, without cursors.             *)

Returned(f) == fn = f /\ pc = "return"

Feeds(text) == {i \in 1..Len(text) : text[i] = "\n"}

\* line k of the text lies between its (k-1)th and its kth line feed
LinesOf(text) ==
    LET feeds == Feeds(text)
        Nth(k) == CHOOSE i \in feeds : Cardinality({j \in feeds : j < i}) = k - 1
    IN [k \in 1..(Cardinality(feeds) + 1) |->
            SubSeq(text,
                   IF k = 1 THEN 1 ELSE Nth(k - 1) + 1,
                   IF k = Cardinality(feeds) + 1 THEN Len(text) ELSE Nth(k) - 1)]

\* the numbers written in a header line (no line is a header of two)
Written(line) ==
    CHOOSE n \in HeaderNumbers : StartsWith(line, HeaderOf(n))
IsHeader(line) == \E n \in HeaderNumbers : StartsWith(line, HeaderOf(n))
IsBroken(line) == StartsWith(line, <<"@", "@">>) /\ ~IsHeader(line)

\* where a hunk's body ends: before the next line that ends it, or with the text
Ends(lines, policy, i) ==
    IsHeader(lines[i]) \/ (policy # "context" /\ IsBroken(lines[i]))
BodyEnd(lines, policy, h) ==
    IF \E i \in (h + 1)..Len(lines) : Ends(lines, policy, i)
    THEN (CHOOSE i \in (h + 1)..Len(lines) :
            Ends(lines, policy, i) /\ \A j \in (h + 1)..(i - 1) : ~Ends(lines, policy, j)) - 1
    ELSE Len(lines)

\* the headers whose hunk is emitted
Emitted(lines, policy) ==
    {h \in 1..Len(lines) :
        /\ IsHeader(lines[h])
        /\ policy = "abortOpen" =>
              LET e == BodyEnd(lines, policy, h) IN
              e = Len(lines) \/ ~IsBroken(lines[e + 1])}

\* the kth smallest member of a set of numbers
Kth(S, k) == CHOOSE x \in S : Cardinality({y \in S : y < x}) = k - 1

TagOf(line) ==
    IF line # <<>> /\ line[1] = "+" THEN "added"
    ELSE IF line # <<>> /\ line[1] = "-" THEN "removed"
    ELSE "context"

\* the hunk of header h: record k is body line k, numbered by the lines before it
HunkAt(lines, policy, h) ==
    LET n == Written(lines[h])
        body == SubSeq(lines, h + 1, BodyEnd(lines, policy, h))
        Olds(k) == Cardinality({j \in 1..(k - 1) : TagOf(body[j]) # "added"})
        News(k) == Cardinality({j \in 1..(k - 1) : TagOf(body[j]) # "removed"})
    IN [oldStart |-> n[1], oldLen |-> n[2], newStart |-> n[3], newLen |-> n[4],
        diffLines |->
            [k \in 1..Len(body) |->
                [type |-> TagOf(body[k]),
                 oldLineNumber |-> IF TagOf(body[k]) = "added" THEN None ELSE n[1] + Olds(k),
                 newLineNumber |-> IF TagOf(body[k]) = "removed" THEN None ELSE n[3] + News(k),
                 content |-> SubSeq(body[k], 2, Len(body[k]))]]]

\* the hunks the parser yields for a text, in the order of their headers
HunksOf(text, policy) ==
    LET lines == LinesOf(text)
        hs == Emitted(lines, policy)
    IN [i \in 1..Cardinality(hs) |-> HunkAt(lines, policy, Kth(hs, i))]

CommentFns == {"convertIssuesCreateCommentResponseToComment",
               "convertPullRequestsGetCommentsResponseItemToComment",
               "parseGraphQLComment"}

----------------------------------------------------------------------------
(* C1: every Comment an adapter returns carries in diffHunks the complete  *)
(* ordered list of the hunks of its own diffHunk text (none dropped,       *)
(* repeated or out of order), and the issue-comment adapter's fixed pair   *)
(* diffHunk = '' / diffHunks = [] is what parsing the empty text gives.    *)
C1_DiffHunksAreTheHunksOfDiffHunk ==
    (pc = "return" /\ fn \in CommentFns) =>
        /\ ret.f.diffHunks = Arr(HunksOf(ret.f.diffHunk.chars, malformedPolicy))
        /\ fn = "convertIssuesCreateCommentResponseToComment" =>
              /\ ret.f.diffHunk = Text(<<>>)
              /\ ret.f.diffHunks = Arr(<<>>)
              /\ parseCommentDiffHunk(ret, malformedPolicy) = Arr(<<>>)
        /\ fn = "convertPullRequestsGetCommentsResponseItemToComment" =>
              ret.f.diffHunk = Get(arg, "diff_hunk")
        /\ fn = "parseGraphQLComment" => ret.f.diffHunk = Get(arg, "diffHunk")

\* a review comment was returned whose text holds two hunks, the second with a body
C1_Witness ==
    /\ Returned("convertPullRequestsGetCommentsResponseItemToComment")
    /\ Len(ret.f.diffHunks.v) = 2
    /\ Len(ret.f.diffHunks.v[1].diffLines) = 0
    /\ Len(ret.f.diffHunks.v[2].diffLines) = 1

----------------------------------------------------------------------------
(* C2: the parser produces exactly one edit record per body line, in input *)
(* order, numbered by two cursors that start at the header's oldStart and  *)
(* newStart: a '+' line is added and takes the new-line cursor only, a '-' *)
(* line is removed and takes the old-line cursor only, any other line is   *)
(* context and takes both, and a cursor advances by one exactly when its   *)
(* number was recorded.  The header @@ -10,3 +10,4 @@ followed by " a",    *)
(* "-b", "+c", "+d" gives one hunk 10,3,10,4 with records context 10/10,   *)
(* removed 11/-, added -/11, added -/12.                                   *)
ExampleHunk ==
    [oldStart |-> 10, oldLen |-> 3, newStart |-> 10, newLen |-> 4,
     diffLines |->
        <<[type |-> "context", oldLineNumber |-> 10, newLineNumber |-> 10,
           content |-> <<"a">>],
          [type |-> "removed", oldLineNumber |-> 11, newLineNumber |-> None,
           content |-> <<"b">>],
          [type |-> "added", oldLineNumber |-> None, newLineNumber |-> 11,
           content |-> <<"c">>],
          [type |-> "added", oldLineNumber |-> None, newLineNumber |-> 12,
           content |-> <<"d">>]>>]

\* C2: one record per body line, in input order, tagged by the line's marker and
\* numbered by the two cursors; the example text gives the example hunk
C2_OneRecordPerBodyLineNumberedByCursors ==
    Returned("parseCommentDiffHunk") =>
        LET lines == LinesOf(arg.f.diffHunk.chars)
            hs == Emitted(lines, malformedPolicy)
        IN
        /\ Len(ret.v) = Cardinality(hs)
        /\ \A i \in 1..Len(ret.v) :
            LET hunk == ret.v[i]
                recs == hunk.diffLines
                h == Kth(hs, i)
                body == SubSeq(lines, h + 1, BodyEnd(lines, malformedPolicy, h))
                \* a cursor before record k: its start, advanced once for every
                \* earlier record that recorded it
                OldCursor(k) ==
                    hunk.oldStart
                    + Cardinality({j \in 1..(k - 1) : recs[j].oldLineNumber # None})
                NewCursor(k) ==
                    hunk.newStart
                    + Cardinality({j \in 1..(k - 1) : recs[j].newLineNumber # None})
            IN
            /\ Len(recs) = Len(body)
            /\ \A k \in 1..Len(recs) :
                /\ recs[k].content = SubSeq(body[k], 2, Len(body[k]))
                /\ recs[k].type = TagOf(body[k])
                /\ recs[k].type = "added" =>
                      recs[k].oldLineNumber = None /\ recs[k].newLineNumber = NewCursor(k)
                /\ recs[k].type = "removed" =>
                      recs[k].oldLineNumber = OldCursor(k) /\ recs[k].newLineNumber = None
                /\ recs[k].type = "context" =>
                      /\ recs[k].oldLineNumber = OldCursor(k)
                      /\ recs[k].newLineNumber = NewCursor(k)
        /\ arg.f.diffHunk = Text(ExampleText) => ret = Arr(<<ExampleHunk>>)

\* the example text was parsed
C2_Witness ==
    /\ Returned("parseCommentDiffHunk")
    /\ arg.f.diffHunk = Text(ExampleText)
    /\ Len(ret.v) = 1
    /\ Len(ret.v[1].diffLines) = 4

----------------------------------------------------------------------------
(* C3: every hunk the parser emits is consistent with its own header.      *)

\* how many records of a hunk have one of these tags
CountOf(hunk, tags) ==
    Cardinality({k \in 1..Len(hunk.diffLines) : hunk.diffLines[k].type \in tags})

\* the line numbers recorded under field, in the order of the records
RECURSIVE Recorded(_, _)
Recorded(recs, field) ==
    IF recs = <<>> THEN <<>>
    ELSE (IF Head(recs)[field] # None THEN <<Head(recs)[field]>> ELSE <<>>)
         \o Recorded(Tail(recs), field)

\* re-serialising the header from the hunk's fields gives the header it came from
CarriesWrittenNumbers(hunk, headerLine) ==
    StartsWith(headerLine,
               FormatHeader(hunk.oldStart, hunk.oldLen, hunk.newStart, hunk.newLen))

----------------------------------------------------------------------------
(* C4: convertGraphQLEventType is a total fixed lookup: 'Commit',          *)
(* 'LabeledEvent', 'MilestonedEvent', 'AssignedEvent', 'IssueComment',     *)
(* 'PullRequestReview' and 'MergedEvent' give Committed, Labeled,          *)
(* Milestoned, Assigned, Commented, Reviewed and Merged, seven distinct    *)
(* kinds, and every other string gives Other.                              *)
KindTable ==
    [Commit |-> "Committed", LabeledEvent |-> "Labeled", MilestonedEvent |-> "Milestoned",
     AssignedEvent |-> "Assigned", IssueComment |-> "Commented",
     PullRequestReview |-> "Reviewed", MergedEvent |-> "Merged"]

\* C4: the result is the table's entry for the seven names and Other for every
\* other argument, and the seven kinds are distinct and none of them Other
C4_EventTypeIsAFixedLookup ==
    /\ fn = "convertGraphQLEventType" /\ pc # "call" =>
        /\ pc = "return"
        /\ ret.t = "EventType"
        /\ ret.v = IF arg.t = "string" /\ arg.v \in DOMAIN KindTable
                   THEN KindTable[arg.v] ELSE "Other"
    /\ \A a, b \in DOMAIN KindTable :
          convertGraphQLEventType(Str(a)) = convertGraphQLEventType(Str(b)) => a = b
    /\ \A a \in DOMAIN KindTable : convertGraphQLEventType(Str(a)) # EventType.Other

\* 'MergedEvent' was looked up
C4_Witness ==
    Returned("convertGraphQLEventType") /\ arg = Str("MergedEvent") /\ ret = EventType.Merged

----------------------------------------------------------------------------
(* C5: the merged field of a converted REST pull request is a boolean:     *)
(* false when the source record lacks merged or carries a falsy one, true  *)
(* exactly when the source's merged is true.                               *)
\* C5: merged is a boolean, true exactly when the source's merged is true
C5_MergedIsABooleanDefaultingToFalse ==
    fn = "convertRESTPullRequestToRawPullRequest" /\ pc # "call" =>
        /\ pc = "return"
        /\ ret.f.merged.t = "boolean"
        /\ ret.f.merged.v <=> Get(arg, "merged") = Bool(TRUE)
        /\ "merged" \notin DOMAIN arg.f => ret.f.merged = Bool(FALSE)
        /\ ~Truthy(Get(arg, "merged")) => ret.f.merged = Bool(FALSE)

\* a record without a merged field was converted
C5_Witness ==
    /\ Returned("convertRESTPullRequestToRawPullRequest")
    /\ "merged" \notin DOMAIN arg.f
    /\ ret.f.merged = Bool(FALSE)

----------------------------------------------------------------------------
(* C6: account conversion and the source user's type field.                *)

\* C6 as claimed: a source user of type "User" gives isUser = true and
\* isEnterprise = false
C6_UserTypeGivesFlags ==
    Returned("convertRESTUserToAccount") /\ Get(arg, "type") = Str("User") =>
        /\ Get(ret, "isUser") = Bool(TRUE)
        /\ Get(ret, "isEnterprise") = Bool(FALSE)

\* C6 as amended: account conversion does not read the type field: for every
\* source user, of type "User" or not, the account has the three fields login,
\* url and avatarUrl, copied from login, html_url and avatar_url, and neither
\* an isUser nor an isEnterprise flag
C6_AccountHasNoTypeFlags ==
    fn = "convertRESTUserToAccount" /\ pc # "call" =>
        /\ pc = "return"
        /\ DOMAIN ret.f = {"login", "url", "avatarUrl"}
        /\ ret.f.login = Get(arg, "login")
        /\ ret.f.url = Get(arg, "html_url")
        /\ ret.f.avatarUrl = Get(arg, "avatar_url")
        /\ Get(ret, "isUser") = Undefined
        /\ Get(ret, "isEnterprise") = Undefined

\* a source user of type "User" was converted
C6_Witness ==
    Returned("convertRESTUserToAccount") /\ Get(arg, "type") = Str("User")

----------------------------------------------------------------------------
(* C7: no adapter raises an error because a nullable source field is       *)
(* absent: assignee (REST pull request), headRef and baseRef (GraphQL pull *)
(* request), pullRequestReview, originalCommit and commit (GraphQL         *)
(* comment), a commit event's author or author.user and a merged event's   *)
(* mergeRef or commit (GraphQL timeline).                                  *)
Absent(x) == x.t \in {"undefined", "null"}

\* C7 as claimed: none of the four adapters ends with an exception, whichever
\* of the nullable fields are absent
C7_NoAdapterThrowsOnAbsentField ==
    fn \in {"convertRESTPullRequestToRawPullRequest", "parseGraphQLPullRequest",
            "parseGraphQLComment", "parseGraphQLTimelineEvents"}
        => pc # "throw"

\* what does hold: an exception is raised exactly when a comment's commit, a
\* commit event's author, or a merged event's mergeRef or commit is absent
C7_ThrowsExactlyOnUnguardedReads ==
    pc # "call" =>
        (pc = "throw" <=>
            \/ fn = "parseGraphQLComment" /\ Absent(Get(arg, "commit"))
            \/ /\ fn = "parseGraphQLTimelineEvents"
               /\ \E i \in 1..Len(arg.v) :
                    LET event == arg.v[i] IN
                    \/ /\ Get(event, "__typename") = Str("Commit")
                       /\ Absent(Get(event, "author"))
                    \/ /\ Get(event, "__typename") = Str("MergedEvent")
                       /\ Absent(Get(event, "mergeRef")) \/ Absent(Get(event, "commit")))

----------------------------------------------------------------------------
(* C8: parseGraphQLTimelineEvents is an order-preserving filter-and-map:   *)
(* one event for each input event of kind Commented, Reviewed, Committed,  *)
(* Merged or Assigned, in the order of the inputs, tagged with that kind,  *)
(* and none for an input of kind Labeled, Milestoned or Other.             *)
HandledKinds ==
    {EventType.Commented, EventType.Reviewed, EventType.Committed, EventType.Merged,
     EventType.Assigned}

\* the kinds of the handled events of a list, in order
RECURSIVE HandledKindsOf(_)
HandledKindsOf(events) ==
    IF events = <<>> THEN <<>>
    ELSE LET kind == convertGraphQLEventType(Get(Head(events), "__typename")) IN
         (IF kind \in HandledKinds THEN <<kind>> ELSE <<>>) \o HandledKindsOf(Tail(events))

IsFilterMap(events, result) ==
    /\ result.t = "array"
    /\ Len(result.v) = Len(HandledKindsOf(events.v))
    /\ \A i \in 1..Len(result.v) : Get(result.v[i], "event") = HandledKindsOf(events.v)[i]

\* C8 as claimed: every call returns the filter-and-map of its argument
C8_TimelineIsAFilterMap ==
    fn = "parseGraphQLTimelineEvents" /\ pc # "call" =>
        pc = "return" /\ IsFilterMap(arg, ret)

\* what does hold: a call that returns has returned the filter-and-map
C8_FilterMapWhenReturned ==
    Returned("parseGraphQLTimelineEvents") => IsFilterMap(arg, ret)

----------------------------------------------------------------------------
(* C9: parseGraphQLComment derives each flag from its own source flag:     *)
(* canEdit from viewerCanUpdate, canDelete from viewerCanDelete, isDraft   *)
(* from state = 'PENDING'; a comment the viewer may update and not delete  *)
(* gives canEdit = true and canDelete = false.                             *)
\* C9 as claimed: canEdit, canDelete and isDraft each follow their own source
C9_FlagsFromTheirOwnSource ==
    Returned("parseGraphQLComment") =>
        /\ ret.f.canEdit = Get(arg, "viewerCanUpdate")
        /\ ret.f.canDelete = Get(arg, "viewerCanDelete")
        /\ ret.f.isDraft = Bool(Get(arg, "state") = Str("PENDING"))

\* what does hold: canDelete and isDraft are derived as claimed
C9_CanDeleteAndIsDraft ==
    Returned("parseGraphQLComment") =>
        /\ ret.f.canDelete = Get(arg, "viewerCanDelete")
        /\ ret.f.isDraft = Bool(Get(arg, "state") = Str("PENDING"))

----------------------------------------------------------------------------
(* C10: convertRESTTimelineEvents returns the very list it was given, with *)
(* the same length and element order; a Reviewed event has submittedAt =   *)
(* submitted_at and htmlUrl = html_url set, a Committed event htmlUrl =    *)
(* html_url; an event of any other kind, and every field other than        *)
(* submittedAt and htmlUrl of every event, is left as it was; converting   *)
(* the result once more changes nothing.                                   *)
EventConverted(before, after) ==
    LET kind == Get(before, "event") IN
    /\ \A k \in DOMAIN before.f \ {"submittedAt", "htmlUrl"} :
          k \in DOMAIN after.f /\ after.f[k] = before.f[k]
    /\ kind = EventType.Reviewed =>
          /\ DOMAIN after.f = DOMAIN before.f \cup {"submittedAt", "htmlUrl"}
          /\ after.f.submittedAt = Get(before, "submitted_at")
          /\ after.f.htmlUrl = Get(before, "html_url")
    /\ kind = EventType.Committed =>
          /\ DOMAIN after.f = DOMAIN before.f \cup {"htmlUrl"}
          /\ after.f.htmlUrl = Get(before, "html_url")
          /\ "submittedAt" \in DOMAIN before.f => after.f.submittedAt = before.f.submittedAt
    /\ kind \notin {EventType.Reviewed, EventType.Committed} => after = before

\* C10: the reference returned is the one given, the list keeps its length and
\* order, each event is changed as its kind says, and a second call changes nothing
C10_RESTTimelineChangedInPlace ==
    fn = "convertRESTTimelineEvents" /\ pc # "call" =>
        /\ pc = "return"
        /\ ret = arg
        /\ DOMAIN heap = DOMAIN heapBefore
        /\ Len(heap[ret.id]) = Len(heapBefore[ret.id])
        /\ applied = 1 =>
              \A i \in 1..Len(heap[ret.id]) :
                  EventConverted(heapBefore[ret.id][i], heap[ret.id][i])
        /\ applied = 2 => heap = heapBefore

\* a list holding a Commented event and a Reviewed one was converted twice
C10_Witness ==
    /\ Returned("convertRESTTimelineEvents")
    /\ applied = 2
    /\ Len(heap[ret.id]) = 2
    /\ Get(heap[ret.id][1], "event") = EventType.Commented
    /\ Get(heap[ret.id][2], "event") = EventType.Reviewed
    /\ "submittedAt" \in DOMAIN heap[ret.id][2].f

============================================================================
